---- MODULE Spec2Model ----
(***************************************************************************)
(* Model of xanthos/runoff/abcd.py: the ABCD monthly water-balance         *)
(* emulator (class ABCD) and its driver _run_basins.                       *)
(*                                                                         *)
(* Numbers.  The program computes in floating point; the model computes in *)
(* fixed point over the integers:                                          *)
(*   water depths (precip, pet, w, y, s, g, ea, rsim, xs, snm)  whole mm   *)
(*   temperatures (tmin, train, tsnow)                          0.1 deg C  *)
(*   a, c, d, m                                                 hundredths *)
(*   b_raw (column 1 of the calibration table)                  tenths     *)
(* Every quotient is the floor of the exact quotient, the square root is   *)
(* the integer square root and exp(-pet/b) is a per-mille factor computed  *)
(* from the exponential series.  Arrays keep the program's 0-based         *)
(* indices: an array is a function row -> (cell -> value).                 *)
(***************************************************************************)
EXTENDS Integers, Sequences, FiniteSets, TLC

\* ------------------------------------------------------------------ bounds
\* number of grid cells of the basin-ID map
NCells == 3
\* longest simulation horizon (n_months) that is tried
MaxSteps == 26
\* longest spin-up (spinup_steps) that is tried
MaxSpinup == 26

\* ------------------------------------------------------- program constants
\* self.train = 2.5 and self.tsnow = 0.6, in tenths of a degree
Train == 25
Tsnow == 6
\* self.sn0 = 0
Sn0 == 0
\* self.inv = np.array([20, 100, 500])
InvDefault == <<20, 100, 500>>
\* dec_idx = [-1, -13, -25]
DecIdxWrong == <<-1, -2, -3>>
DecIdx == <<-1, -13, -25>>

\* ---------------------------------------------------------------- helpers
Min(x, y) == IF x <= y THEN x ELSE y
Max(x, y) == IF x >= y THEN x ELSE y

Range(n) == 0 .. (n - 1)

RECURSIVE SumOver(_, _)
SumOver(f, S) ==
    IF S = {} THEN 0
    ELSE LET x == CHOOSE x \in S : TRUE IN f[x] + SumOver(f, S \ {x})

\* np.mean / np.nanmean of the values f[x], x in S (no value is missing)
Mean(f, S) == SumOver(f, S) \div Cardinality(S)

\* np.power(x, 0.5): the integer square root, by bisection on lo..hi
RECURSIVE SqrtBetween(_, _, _)
SqrtBetween(x, lo, hi) ==
    IF lo >= hi THEN lo
    ELSE LET mid == (lo + hi + 1) \div 2
         IN IF mid * mid <= x THEN SqrtBetween(x, mid, hi)
            ELSE SqrtBetween(x, lo, mid - 1)

Sqrt(x) == SqrtBetween(x, 0, Min(x, 46340))

\* np.exp(-pet / b) as a per-mille factor: 1000 / (1 + x + x^2/2! + ... )
RECURSIVE ExpSeries(_, _, _, _)
ExpSeries(pet, b, k, term) ==
    IF term = 0 \/ k > 12 THEN 0
    ELSE term + ExpSeries(pet, b, k + 1, (term * pet) \div (b * k))

ExpNeg(pet, b) == (1000 * 1000) \div ExpSeries(pet, b, 1, 1000)

\* Python's index into an axis of n rows: a negative index counts from the end
PyIndex(n, k) == IF k < 0 THEN n + k ELSE k
IndexError(n, k) == PyIndex(n, k) < 0 \/ PyIndex(n, k) >= n

\* np.zeros_like(p)
ZerosLike(p) == [r \in DOMAIN p |-> [j \in DOMAIN p[r] |-> 0]]

\* arr[0:k, :]
Slice(arr, k) == [r \in {x \in DOMAIN arr : x < k} |-> arr[r]]

Rows(arr) == Cardinality(DOMAIN arr)

\* arr.T for an array of nrows x ncols
Transpose(arr, nrows, ncols) ==
    [c \in Range(ncols) |-> [r \in Range(nrows) |-> arr[r][c]]]

\* ----------------------------------------------------------------- inputs
\* months of climate data in the input arrays (cells x months)
DataMonths == Max(MaxSteps, MaxSpinup)

P12 == <<80, 60, 50, 30, 10, 0, 0, 5, 20, 40, 70, 90>>
E12 == <<10, 15, 30, 60, 90, 140, 150, 130, 80, 40, 20, 10>>
T12 == <<-50, -20, 6, 10, 25, 60, 120, 150, 100, 25, 6, -10>>

\* the climate inputs that are tried: precip, pet (mm) and tmin (0.1 deg C)
PrecipIn(clim) ==
    [k \in Range(NCells) |-> [t \in Range(DataMonths) |->
        IF clim = 1 THEN P12[(t % 12) + 1] + 10 * k
        ELSE (P12[((t + 6) % 12) + 1] \div 2) + k]]

PetIn(clim) ==
    [k \in Range(NCells) |-> [t \in Range(DataMonths) |->
        IF clim = 1 THEN E12[(t % 12) + 1] + 5 * k
        ELSE E12[((t + 3) % 12) + 1] - 10]]

TminIn(clim) ==
    [k \in Range(NCells) |-> [t \in Range(DataMonths) |->
        IF clim = 1 THEN T12[((t + k) % 12) + 1]
        ELSE T12[((t + 4 * k + 2) % 12) + 1]]]

Climates == {1, 2}

\* the basin-ID maps that are tried (1-based basin IDs, one per grid cell)
BasinMaps ==
    { [k \in Range(NCells) |-> (k % 2) + 1],
      [k \in Range(NCells) |-> IF k = 0 THEN 2 ELSE 1] }

\* number of basins of a basin-ID map
NumBasins(ids) == CHOOSE b \in 1 .. NCells :
    /\ \A k \in DOMAIN ids : ids[k] <= b
    /\ \E k \in DOMAIN ids : ids[k] = b

\* calibration tables that are tried: rows <<a, b_raw, c, d, m>>
ParsRow(tab, r) ==
    IF tab = 1 THEN <<98 - 4 * r, 4 + r, 35 + 10 * r, 1 + r, 50 + 10 * r>>
    ELSE <<90 + 3 * r, 6 - r, 20 + 15 * r, 3 - r, 30 + 20 * r>>

\* table 1 has one row per grid cell, table 2 one row per basin
ParsTables(ids) ==
    { [r \in Range(NCells) |-> ParsRow(1, r)],
      [r \in Range(NumBasins(ids)) |-> ParsRow(2, r)] }

\* -------------------------------------------------------------- class ABCD
\* ABCD.__init__.  tmin = None is nosnow = TRUE with tmin = << >>.  A scalar
\* that numpy broadcasts over the cells (inv, m = 0) is held once per cell.
\* The arrays re, dr and base (and method) are written and never read, and
\* are left out.
ABCDInit(pars, pet, precip, tmin, nosnow, basin_ids, process_steps, spinup_steps) ==
    LET n == Cardinality(DOMAIN basin_ids)
        C == Range(n)
        petT == Slice(Transpose(pet, n, DataMonths), process_steps)
        precipT == Slice(Transpose(precip, n, DataMonths), process_steps)
        tminT == IF nosnow THEN << >>
                 ELSE Slice(Transpose(tmin, n, DataMonths), process_steps)
    IN [ n |-> n,
         steps |-> process_steps,
         spinup_steps |-> spinup_steps,
         basin_ids |-> basin_ids,
         nosnow |-> nosnow,
         a |-> [j \in C |-> pars[j][1]],
         b |-> [j \in C |-> (pars[j][2] * 1000) \div 10],
         c |-> [j \in C |-> pars[j][3]],
         d |-> [j \in C |-> pars[j][4]],
         m |-> [j \in C |-> IF nosnow THEN 0 ELSE pars[j][5]],
         inv |-> [q \in 1 .. 3 |-> [j \in C |-> InvDefault[q]]],
         s0 |-> [j \in C |-> InvDefault[2]],
         g0 |-> [j \in C |-> InvDefault[3]],
         pet |-> petT,
         precip |-> precipT,
         pet0 |-> Slice(petT, spinup_steps),
         p0 |-> Slice(precipT, spinup_steps),
         tmin |-> tminT,
         tmin0 |-> IF nosnow THEN << >> ELSE Slice(tminT, spinup_steps),
         snm |-> << >>, ea |-> << >>, g |-> << >>, s |-> << >>, w |-> << >>,
         y |-> << >>, xs |-> << >>, rsim |-> << >>, rain |-> << >>,
         snow |-> << >>,
         sn0 |-> Sn0 ]

\* set_ea: arr[0, :] = p[0, :] * frac, frac = 0.6
SetEa(p) == [ZerosLike(p) EXCEPT ![0] = [j \in DOMAIN p[0] |-> (p[0][j] * 6) \div 10]]

\* set_xs: arr[0, :] = p[0, :] / 10
SetXs(p) == [ZerosLike(p) EXCEPT ![0] = [j \in DOMAIN p[0] |-> p[0][j] \div 10]]

\* set_rsim: arr[0, :] = v
SetRsim(p, v) == [ZerosLike(p) EXCEPT ![0] = [j \in DOMAIN p[0] |-> v[j]]]

\* get_rs: the three temperature cases
GetRsAllRain(t) == t > Train
GetRsRainOrSnowStrict(t) == t < Train /\ t > Tsnow
GetRsRainOrSnow(t) == t <= Train /\ t >= Tsnow
GetRsAllSnow(t) == t < Tsnow

\* get_rs, one entry: the assignments in the order the code makes them
\* (the last one that applies wins); an entry in no case stays 0
SnowEntry(p, t) ==
    LET mixed == IF GetRsRainOrSnow(t)
                 THEN (p * (Train - t)) \div (Train - Tsnow) ELSE 0
        rained == IF GetRsAllRain(t) THEN 0 ELSE mixed
    IN IF GetRsAllSnow(t) THEN p ELSE rained

RainEntry(p, t) ==
    LET rained == IF GetRsAllRain(t) THEN p ELSE 0
        mixed == IF GetRsRainOrSnow(t) THEN p - SnowEntry(p, t) ELSE rained
    IN IF GetRsAllSnow(t) THEN 0 ELSE mixed

\* get_rs: self.rain and self.snow after the call
GetRs(h, p, tmin) ==
    IF h.nosnow THEN [h EXCEPT !.rain = p]
    ELSE [h EXCEPT
            !.rain = [r \in DOMAIN p |-> [j \in DOMAIN p[r] |->
                        RainEntry(p[r][j], tmin[r][j])]],
            !.snow = [r \in DOMAIN p |-> [j \in DOMAIN p[r] |->
                        SnowEntry(p[r][j], tmin[r][j])]]]

\* init_arrays raises IndexError (arr[0, :] of an array without rows)
InitArraysRaises(p) == IndexError(Rows(p), 0)

\* init_arrays
InitArrays(h, p, tmin) ==
    GetRs([h EXCEPT
             !.rsim = SetRsim(p, h.inv[1]),
             !.snm = ZerosLike(p),
             !.ea = SetEa(p),
             !.g = ZerosLike(p),
             !.s = ZerosLike(p),
             !.w = ZerosLike(p),
             !.y = ZerosLike(p),
             !.xs = SetXs(p)], p, tmin)

\* abcd_dist: the three temperature cases of the snowmelt
DistAllRain(t) == t > Train
DistRainOrSnow(t) == t <= Train /\ t >= Tsnow
DistAllSnow(t) == t < Tsnow

\* abcd_dist raises IndexError: month i is no row of the arrays
AbcdDistRaises(h, i) == IndexError(Rows(h.rain), i)

\* abcd_dist: the snow pack that month i starts from
XsPrevSeed(h, i) == IF i = 0 THEN h.xs[0] ELSE h.xs[i - 1]
XsPrev(h, i) == IF i = 0 THEN [j \in Range(h.n) |-> h.sn0] ELSE h.xs[i - 1]

\* abcd_dist: snowmelt of one cell from its accumulated snow x
Snowmelt(x, m, t, old) ==
    LET rained == IF DistAllRain(t) THEN (x * m) \div 100 ELSE old
        mixed == IF DistRainOrSnow(t)
                 THEN ((x * m) * (Train - t)) \div (100 * (Train - Tsnow))
                 ELSE rained
    IN IF DistAllSnow(t) THEN 0 ELSE mixed

\* abcd_dist: rpt / pt2, the discriminant and the ET opportunity y
RptOverPt2(w, a, b) == ((w + b) * 100) \div (2 * a)
Discriminant(w, a, b) == RptOverPt2(w, a, b) * RptOverPt2(w, a, b) - (w * b * 100) \div a
EtOpportunity(w, a, b) == RptOverPt2(w, a, b) - Sqrt(Discriminant(w, a, b))

\* abcd_dist: np.minimum(pet, np.maximum(0, ea))
ClampSwapped(ea, pet) == Max(pet, Min(0, ea))
Clamp(ea, pet) == Min(pet, Max(0, ea))

\* abcd_dist(i, pet, tmin) for a month i that is a row of the arrays
AbcdDist(h, i, pet, tmin) ==
    LET C == Range(h.n)
        acc == [j \in C |-> XsPrev(h, i)[j] + h.snow[i][j]]
        snm == IF h.nosnow THEN h.snm[i]
               ELSE [j \in C |-> Snowmelt(acc[j], h.m[j], tmin[i][j], h.snm[i][j])]
        xs == IF h.nosnow THEN h.xs[i] ELSE [j \in C |-> acc[j] - snm[j]]
        w == [j \in C |-> IF i = 0 THEN h.rain[i][j] + h.s0[j]
                          ELSE h.rain[i][j] + h.s[i - 1][j] + snm[j]]
        y == [j \in C |-> EtOpportunity(w[j], h.a[j], h.b[j])]
        scand == [j \in C |-> (y[j] * ExpNeg(pet[i][j], h.b[j])) \div 1000]
        awet == [j \in C |-> w[j] - y[j]]
        g == [j \in C |->
                IF i = 0 THEN (h.g0[j] * 100 + h.c[j] * awet[j]) \div (100 + h.d[j])
                ELSE (h.g[i - 1][j] * 100 + h.c[j] * awet[j]) \div (100 + h.d[j])]
        ea == [j \in C |-> Clamp(y[j] - scand[j], pet[i][j])]
    IN [h EXCEPT
          !.xs[i] = xs,
          !.snm[i] = snm,
          !.w[i] = w,
          !.y[i] = y,
          !.g[i] = g,
          !.ea[i] = ea,
          !.s[i] = [j \in C |-> y[j] - ea[j]],
          !.rsim[i] = [j \in C |-> ((100 - h.c[j]) * awet[j] + h.d[j] * g[j]) \div 100]]

\* set_vals: the try block (dec_idx = [-1, -13, -25]) raises no IndexError,
\* so its handler, which prints these lines and re-raises, is not entered
SetValsTryRaises == FALSE
SetValsMessages(h) ==
    << "Spin-up steps must produce at least 10 years spin-up.",
       <<"Your spin-up only consist of {} months", h.spinup_steps>>,
       "Please reconfigure and try again." >>

\* set_vals raises IndexError at self.rsim[dec_idx, :], outside the try block
SetValsRaises(h) == \E q \in 1 .. 3 : IndexError(Rows(h.rsim), DecIdx[q])

\* set_vals: b_idx = (i == self.basin_ids)
BIdxAll(h, b) == Range(h.n)
BIdx(h, b) == {j \in Range(h.n) : h.basin_ids[j] = b}

\* set_vals: np.mean(np.nanmean(arr[dec_idx, :][:, b_idx], axis=1))
RolloverMeanLast(h, arr, b) == Mean(arr[PyIndex(Rows(arr), DecIdx[1])], BIdx(h, b))
RolloverMean(h, arr, b) ==
    Mean([q \in 1 .. 3 |-> Mean(arr[PyIndex(Rows(arr), DecIdx[q])], BIdx(h, b))],
         1 .. 3)

\* set_vals, when the three rows exist
SetValsStale(h) ==
    [h EXCEPT !.inv = [q \in 1 .. 3 |-> [j \in Range(h.n) |->
        RolloverMean(h, <<h.rsim, h.s, h.g>>[q], h.basin_ids[j])]]]
SetVals(h) ==
    LET inv == [q \in 1 .. 3 |-> [j \in Range(h.n) |->
                  RolloverMean(h, <<h.rsim, h.s, h.g>>[q], h.basin_ids[j])]]
    IN [h EXCEPT !.inv = inv, !.s0 = inv[2], !.g0 = inv[3]]

\* ------------------------------------------------------------- _run_basins
\* np.where(np.isin(basin_ids, basin_nums)): the selected cells, in the order
\* of the basin-ID array (position j -> cell)
BasinIndices(ids, nums) ==
    LET sel == {k \in DOMAIN ids : ids[k] \in nums}
    IN [j \in Range(Cardinality(sel)) |->
          CHOOSE k \in sel : Cardinality({x \in sel : x < k}) = j]

\* pars_by_cell = pars_abcdm[basin_ids - 1]
ParsByCellOffByOne(pars, ids) ==
    [k \in DOMAIN ids |-> pars[PyIndex(Rows(pars), ids[k] - 2)]]
ParsByCell(pars, ids) == [k \in DOMAIN ids |-> pars[ids[k] - 1]]

\* arr[basin_indices]
Take(arr, idx) == [j \in DOMAIN idx |-> arr[idx[j]]]

\* np.hstack([he.pet.T, he.ea.T, he.rsim.T, he.s.T]): one row per cell
HStack(h) ==
    [j \in Range(h.n) |-> [q \in Range(4 * h.steps) |->
        <<h.pet, h.ea, h.rsim, h.s>>[(q \div h.steps) + 1][q % h.steps][j]]]

\* ------------------------------------------------------------------ state
VARIABLES
    basin_ids,      \* basin ID of every grid cell
    pars_abcdm,     \* the calibration table
    climate,        \* which climate input (pet, precip, tmin) is given
    tmin_given,     \* FALSE: tmin is None
    n_months,       \* simulation months
    spinup_steps,   \* spin-up months
    jobs,           \* the basin_nums of the _run_basins calls, in call order
    job,            \* the call that runs, or is next to run
    pc,             \* where that call stands
    i,              \* the month of the running loop
    basin_indices,  \* _run_basins: the selected cells
    he,             \* _run_basins: the ABCD instance
    he2,            \* a second run of the same call from other month-0 seeds
    rslts,          \* the arrays the completed calls returned, in call order
    stdout,         \* the lines printed
    err,            \* the call an IndexError was raised in, or "none"
    calls,          \* the calls of the running emulate() that completed
    spun            \* the rsim, s and g arrays of the spin-up set_vals read

inputs == <<basin_ids, pars_abcdm, climate, tmin_given, n_months, spinup_steps, jobs>>
vars == <<inputs, job, pc, i, basin_indices, he, he2, rslts, stdout, err, calls, spun>>

\* spin-up lengths and horizons that are tried
SpinupChoices == 0 .. MaxSpinup
StepsChoices == {2, 13, MaxSteps}

\* abcd_parallel makes one call for range(1, num_basins + 1); the other list
\* also makes one call per basin
JobLists(ids) ==
    LET all == 1 .. NumBasins(ids)
    IN { <<all>>, <<all>> \o [b \in all |-> {b}] }

\* the second run: another initial runoff, and other month-0 seeds
OtherRunoff(h) == [h EXCEPT !.inv[1] = [j \in Range(h.n) |-> @[j] + 37]]
OtherSeeds(h) ==
    [h EXCEPT !.rsim[0] = [j \in Range(h.n) |-> @[j] + 37],
              !.ea[0] = [j \in Range(h.n) |-> @[j] + 11],
              !.xs[0] = [j \in Range(h.n) |-> @[j] + 23]]

NoInstance == [n |-> 0]

Init ==
    /\ basin_ids \in BasinMaps
    /\ pars_abcdm \in ParsTables(basin_ids)
    /\ climate \in Climates
    /\ tmin_given \in BOOLEAN
    /\ n_months \in StepsChoices
    /\ spinup_steps \in SpinupChoices
    /\ jobs \in JobLists(basin_ids)
    /\ job = 1
    /\ pc = "idle"
    /\ i = 0
    /\ basin_indices = << >>
    /\ he = NoInstance
    /\ he2 = NoInstance
    /\ rslts = << >>
    /\ stdout = << >>
    /\ err = "none"
    /\ calls = << >>
    /\ spun = << >>

\* an IndexError leaves the instance as it is and ends the program
Raise(where) ==
    /\ pc' = "raised"
    /\ err' = where
    /\ UNCHANGED <<inputs, job, i, basin_indices, he, he2, rslts, calls, spun>>

\* _run_basins up to he = ABCD(...)
RunBasins ==
    /\ pc = "idle"
    /\ job <= Len(jobs)
    /\ LET idx == BasinIndices(basin_ids, jobs[job])
           new == ABCDInit(Take(ParsByCell(pars_abcdm, basin_ids), idx),
                           Take(PetIn(climate), idx),
                           Take(PrecipIn(climate), idx),
                           IF tmin_given THEN Take(TminIn(climate), idx) ELSE << >>,
                           ~tmin_given,
                           Take(basin_ids, idx), n_months, spinup_steps)
       IN /\ basin_indices' = idx
          /\ he' = new
          /\ he2' = OtherRunoff(new)
    /\ stdout' = Append(stdout, <<"Processing spin-up and simulation for basins {}", jobs[job]>>)
    /\ pc' = "spinup_init"
    /\ calls' = << >>
    /\ spun' = << >>
    /\ UNCHANGED <<inputs, job, i, rslts, err>>

\* spinup: init_arrays(p0, tmin0)
SpinupInit ==
    /\ pc = "spinup_init"
    /\ IF InitArraysRaises(he.p0)
       THEN Raise("init_arrays") /\ UNCHANGED stdout
       ELSE /\ he' = InitArrays(he, he.p0, he.tmin0)
            /\ he2' = OtherSeeds(InitArrays(he2, he2.p0, he2.tmin0))
            /\ i' = 0
            /\ pc' = "spinup"
            /\ calls' = Append(calls, <<"init_arrays", "spinup", 0>>)
            /\ UNCHANGED <<inputs, job, basin_indices, rslts, stdout, err, spun>>

\* spinup: one pass of the loop, abcd_dist(i, pet0, tmin0)
SpinupStep ==
    /\ pc = "spinup"
    /\ i < he.spinup_steps
    /\ IF AbcdDistRaises(he, i)
       THEN Raise("abcd_dist") /\ UNCHANGED stdout
       ELSE /\ he' = AbcdDist(he, i, he.pet0, he.tmin0)
            /\ he2' = AbcdDist(he2, i, he2.pet0, he2.tmin0)
            /\ i' = i + 1
            /\ calls' = Append(calls, <<"abcd_dist", "spinup", i>>)
            /\ UNCHANGED <<inputs, job, pc, basin_indices, rslts, stdout, err, spun>>

\* spinup: set_vals, after the loop
SetValsStep ==
    /\ pc = "spinup"
    /\ i = he.spinup_steps
    /\ stdout' = IF SetValsTryRaises THEN stdout \o SetValsMessages(he) ELSE stdout
    /\ IF SetValsTryRaises \/ SetValsRaises(he)
       THEN Raise("set_vals")
       ELSE /\ he' = SetVals(he)
            /\ he2' = SetVals(he2)
            /\ pc' = "simulate_init"
            /\ calls' = Append(calls, <<"set_vals", "spinup", i>>)
            /\ spun' = <<he.rsim, he.s, he.g>>
            /\ UNCHANGED <<inputs, job, i, basin_indices, rslts, err>>

\* simulate: init_arrays(precip, tmin)
SimulateInit ==
    /\ pc = "simulate_init"
    /\ IF InitArraysRaises(he.precip)
       THEN Raise("init_arrays") /\ UNCHANGED stdout
       ELSE /\ he' = InitArrays(he, he.precip, he.tmin)
            /\ he2' = OtherSeeds(InitArrays(he2, he2.precip, he2.tmin))
            /\ i' = 0
            /\ pc' = "simulate"
            /\ calls' = Append(calls, <<"init_arrays", "simulate", 0>>)
            /\ UNCHANGED <<inputs, job, basin_indices, rslts, stdout, err, spun>>

\* simulate: one pass of the loop, abcd_dist(i, pet, tmin)
SimulateStep ==
    /\ pc = "simulate"
    /\ i < he.steps
    /\ IF AbcdDistRaises(he, i)
       THEN Raise("abcd_dist") /\ UNCHANGED stdout
       ELSE /\ he' = AbcdDist(he, i, he.pet, he.tmin)
            /\ he2' = AbcdDist(he2, i, he2.pet, he2.tmin)
            /\ i' = i + 1
            /\ calls' = Append(calls, <<"abcd_dist", "simulate", i>>)
            /\ UNCHANGED <<inputs, job, pc, basin_indices, rslts, stdout, err, spun>>

\* _run_basins: vals = np.hstack(...); return vals
ReturnVals ==
    /\ pc = "simulate"
    /\ i = he.steps
    /\ rslts' = Append(rslts, HStack(he))
    /\ job' = job + 1
    /\ pc' = "idle"
    /\ UNCHANGED <<inputs, i, basin_indices, he, he2, stdout, err, calls, spun>>

Next ==
    \/ RunBasins
    \/ SpinupInit
    \/ SpinupStep
    \/ SetValsStep
    \/ SimulateInit
    \/ SimulateStep
    \/ ReturnVals

Spec == Init /\ [][Next]_vars

\* ------------------------------------------------------------------ claims
\* the months abcd_dist has computed in the arrays the instance holds now
Computed ==
    {calls[k][3] : k \in {x \in DOMAIN calls :
        /\ calls[x][1] = "abcd_dist"
        /\ \A z \in DOMAIN calls : z > x => calls[z][1] # "init_arrays"}}

\* the run got as far as init_arrays and holds arrays
HasArrays == \E k \in DOMAIN calls : calls[k][1] = "init_arrays"

\* spin-up is over: set_vals has run in the running or the last emulate()
SpunUp == \E k \in DOMAIN calls : calls[k][1] = "set_vals"

\* C1: with spinup_steps below 25, emulate() raises during spin-up (in
\* init_arrays, in abcd_dist or at the latest in set_vals): simulate() is
\* never entered, no simulation step runs and _run_basins returns nothing
\* (the run is in its first call's spin-up or has ended with the IndexError).
C1_ShortSpinupRaises ==
    spinup_steps < 25 =>
        /\ pc \in {"idle", "spinup_init", "spinup", "raised"}
        /\ job = 1
        /\ rslts = << >>
        /\ \A k \in DOMAIN calls : calls[k][2] = "spinup" /\ calls[k][1] # "set_vals"
        /\ pc = "raised" => err \in {"init_arrays", "abcd_dist", "set_vals"}
        /\ (pc = "spinup" /\ i > 0) => i <= spinup_steps /\ Computed = Range(i)

C1_Witness ==
    /\ spinup_steps = 12
    /\ pc = "raised"
    /\ err = "set_vals"
    /\ Len(calls) = 13

\* C2: the output rows of a grid cell are the same in every _run_basins call
\* that selects the cell, whichever other basins the call selects.
C2_BatchIndependent ==
    \A j1, j2 \in DOMAIN rslts :
        LET idx1 == BasinIndices(basin_ids, jobs[j1])
            idx2 == BasinIndices(basin_ids, jobs[j2])
        IN \A c1 \in DOMAIN idx1, c2 \in DOMAIN idx2 :
              idx1[c1] = idx2[c2] => rslts[j1][c1] = rslts[j2][c2]

C2_Witness ==
    /\ Len(jobs) > 1
    /\ Len(rslts) = Len(jobs)
    /\ tmin_given
    /\ \E j \in DOMAIN rslts : jobs[j] # jobs[1]

\* the sum of arr over the rows at offsets -1, -13, -25 and the cells S
DecemberSum(arr, S) ==
    LET rows == Cardinality(DOMAIN arr)
    IN SumOver([r \in {rows - 1, rows - 13, rows - 25} |-> SumOver(arr[r], S)],
               {rows - 1, rows - 13, rows - 25})

\* v is the mean of the total over count values, as the fixed-point mean of
\* the three row means gives it (each of the two floors loses less than 1)
IsMean(v, total, count) == count * v <= total /\ total < count * (v + 2)

\* C3: once spin-up is over, two cells of the instance with the same basin ID
\* hold the same initial runoff, soil moisture and groundwater in inv (and s0,
\* g0), each the mean over the three rows at offsets -1, -13, -25 of the
\* spin-up run and over the cells of the basin; simulation steps keep it so.
C3_BasinUniformInitialValues ==
    SpunUp =>
        /\ he.s0 = he.inv[2]
        /\ he.g0 = he.inv[3]
        /\ \A j1, j2 \in Range(he.n) :
              he.basin_ids[j1] = he.basin_ids[j2] =>
                 \A q \in 1 .. 3 : he.inv[q][j1] = he.inv[q][j2]
        /\ \A j \in Range(he.n) : \A q \in 1 .. 3 :
              LET S == {x \in Range(he.n) : he.basin_ids[x] = he.basin_ids[j]}
              IN IsMean(he.inv[q][j], DecemberSum(spun[q], S), 3 * Cardinality(S))

C3_Witness ==
    /\ pc = "simulate"
    /\ i = n_months
    /\ he.n = NCells
    /\ \E j1, j2 \in Range(he.n) :
          /\ j1 # j2
          /\ he.basin_ids[j1] = he.basin_ids[j2]
          /\ spun[2][Rows(spun[2]) - 1][j1] # spun[2][Rows(spun[2]) - 1][j2]
    /\ \E j1, j2 \in Range(he.n) : he.inv[2][j1] # he.inv[2][j2]

C5_SnowPartition ==
    (HasArrays /\ tmin_given) =>
        \A r \in DOMAIN he.rain : \A j \in Range(he.n) :
            LET p == he.precip[r][j]
                t == he.tmin[r][j]
                rain == he.rain[r][j]
                snow == he.snow[r][j]
            IN /\ rain + snow = p
               /\ t > 25 => (snow = 0 /\ rain = p)
               /\ t < 6 => (rain = 0 /\ snow = p)
               /\ (6 <= t /\ t <= 25) =>
                     (snow = (p * (25 - t)) \div 19 /\ rain = p - snow)
               /\ Cardinality({x \in {"rain", "mixed", "snow"} :
                     \/ x = "rain" /\ GetRsAllRain(t)
                     \/ x = "mixed" /\ GetRsRainOrSnow(t)
                     \/ x = "snow" /\ GetRsAllSnow(t)}) = 1

C5_Witness ==
    /\ HasArrays
    /\ tmin_given
    /\ pc = "simulate"
    /\ \E r \in DOMAIN he.rain : \E j \in Range(he.n) :
          he.tmin[r][j] = 25 /\ he.precip[r][j] > 0
    /\ \E r \in DOMAIN he.rain : \E j \in Range(he.n) :
          he.tmin[r][j] = 6 /\ he.snow[r][j] > 0 /\ he.rain[r][j] = 0
    /\ \E r \in DOMAIN he.rain : \E j \in Range(he.n) :
          he.tmin[r][j] > 25 /\ he.rain[r][j] > 0
    /\ \E r \in DOMAIN he.rain : \E j \in Range(he.n) :
          he.tmin[r][j] < 6 /\ he.snow[r][j] > 0
    /\ \E r \in DOMAIN he.rain : \E j \in Range(he.n) :
          he.rain[r][j] > 0 /\ he.snow[r][j] > 0

\* an ABCD instance exists (the running call has constructed it)
Constructed == pc # "idle" \/ job > 1

\* the instance holds, for its cell j, the climate rows of grid cell k
OwnClimate(j, k) ==
    \A t \in Range(n_months) :
        /\ he.precip[t][j] = PrecipIn(climate)[k][t]
        /\ he.pet[t][j] = PetIn(climate)[k][t]
        /\ tmin_given => he.tmin[t][j] = TminIn(climate)[k][t]

\* the _run_basins call that constructed the instance
InstanceJob == IF pc = "idle" THEN job - 1 ELSE job

\* the selected cells are the cells of the selected basins, in the order of
\* the basin-ID array
OrderKept ==
    /\ \A j1, j2 \in DOMAIN basin_indices :
          j1 < j2 => basin_indices[j1] < basin_indices[j2]
    /\ {basin_indices[j] : j \in DOMAIN basin_indices}
          = {k \in DOMAIN basin_ids : basin_ids[k] \in jobs[InstanceJob]}

\* the instance simulates its cell j with the calibration row row
\* (a, b_raw * 1000, c, d, and m when snow is enabled)
UsesRow(j, row) ==
    /\ he.a[j] = row[1]
    /\ he.b[j] = row[2] * 100
    /\ he.c[j] = row[3]
    /\ he.d[j] = row[4]
    /\ tmin_given => he.m[j] = row[5]

\* C6 as claimed: with one calibration row per grid cell, every selected cell
\* k is simulated with row k, with its own climate rows, in input order.
C6_OwnRowPerCell ==
    (Constructed /\ pc # "raised" /\ Rows(pars_abcdm) = Cardinality(DOMAIN basin_ids)) =>
        /\ OrderKept
        /\ \A j \in Range(he.n) :
              /\ UsesRow(j, pars_abcdm[basin_indices[j]])
              /\ OwnClimate(j, basin_indices[j])

\* C6 as amended: every selected cell k is simulated with the calibration row
\* of its basin, pars_abcdm[basin_ids[k] - 1] (m counts only with snow
\* enabled), with its own climate rows, and the selected cells keep the order
\* of the basin-ID array.
C6_RowOfBasin ==
    Constructed =>
        /\ OrderKept
        /\ he.n = Cardinality(DOMAIN basin_indices)
        /\ \A j \in Range(he.n) :
              /\ UsesRow(j, pars_abcdm[basin_ids[basin_indices[j]] - 1])
              /\ OwnClimate(j, basin_indices[j])
              /\ he.basin_ids[j] = basin_ids[basin_indices[j]]

C6_Witness ==
    /\ pc = "simulate"
    /\ i = n_months
    /\ Rows(pars_abcdm) = NCells
    /\ he.n = NCells
    /\ \E j \in Range(he.n) :
          pars_abcdm[basin_indices[j]] # pars_abcdm[basin_ids[basin_indices[j]] - 1]

\* the initial conditions are the constructor's defaults
AtDefaults(h) ==
    /\ \A q \in 1 .. 3 : \A j \in Range(h.n) : h.inv[q][j] = <<20, 100, 500>>[q]
    /\ \A j \in Range(h.n) : h.s0[j] = 100 /\ h.g0[j] = 500

\* C7: within one emulate() the initial conditions (inv, s0, g0) are the
\* defaults (20, 100, 500) through spin-up, are replaced once, by set_vals
\* between the last spin-up step and the first simulation step (s0 and g0
\* following inv), and no other step of the run changes them.
C7_InitialConditionsChangeOnce ==
    [][ /\ pc' \in {"spinup_init", "spinup"} => AtDefaults(he')
        /\ (pc = "spinup" /\ pc' = "simulate_init") =>
              /\ he'.inv # he.inv
              /\ he'.s0 = he'.inv[2]
              /\ he'.g0 = he'.inv[3]
              /\ calls = [k \in 1 .. spinup_steps + 1 |->
                            IF k = 1 THEN <<"init_arrays", "spinup", 0>>
                            ELSE <<"abcd_dist", "spinup", k - 2>>]
        /\ (pc # "idle" /\ ~(pc = "spinup" /\ pc' = "simulate_init")) =>
              /\ he'.inv = he.inv
              /\ he'.s0 = he.s0
              /\ he'.g0 = he.g0 ]_vars

C7_Witness ==
    /\ pc = "simulate"
    /\ i = n_months
    /\ ~AtDefaults(he)
    /\ he.s0 = he.inv[2]
    /\ he.g0 = he.inv[3]

\* C8 as claimed: when set_vals fails for a spin-up shorter than 25 months,
\* its handler has printed the explanatory lines before the run aborts.
C8_MessagePrinted ==
    (pc = "raised" /\ err = "set_vals") =>
        \A q \in 1 .. 3 : \E k \in DOMAIN stdout : stdout[k] = SetValsMessages(he)[q]

\* C9 as claimed: with spinup_steps >= 25, whatever n_months is, the spin-up
\* window holds the first spinup_steps months and spin-up runs abcd_dist for
\* i = 0 .. spinup_steps-1 in order and then set_vals.
C9_SpinupRunsAllSteps ==
    (spinup_steps >= 25 /\ Constructed) =>
        /\ Rows(he.p0) = spinup_steps
        /\ Rows(he.pet0) = spinup_steps
        /\ pc = "raised" => SpunUp
        /\ (pc = "spinup" /\ i = spinup_steps) =>
              calls = [k \in 1 .. spinup_steps + 1 |->
                         IF k = 1 THEN <<"init_arrays", "spinup", 0>>
                         ELSE <<"abcd_dist", "spinup", k - 2>>]

\* C10: the initial runoff inv[0] and the month-0 seeds of init_arrays
\* (rsim[0], ea[0], xs[0]) reach no output: a second run of the same call
\* that starts from another initial runoff and other seeds has the same ea,
\* rsim and s in every computed month, the same s0 and g0 after spin-up and
\* returns the same array.
C10_SeedsNeverRead ==
    HasArrays =>
        /\ \A r \in Computed :
              /\ he.ea[r] = he2.ea[r]
              /\ he.rsim[r] = he2.rsim[r]
              /\ he.s[r] = he2.s[r]
        /\ SpunUp => (he.inv = he2.inv /\ he.s0 = he2.s0 /\ he.g0 = he2.g0)
        /\ (pc = "simulate" /\ i = n_months) => HStack(he) = HStack(he2)

C10_Witness ==
    /\ pc = "simulate"
    /\ i = n_months
    /\ tmin_given
    /\ he.rsim[0] = he2.rsim[0]
    /\ he.xs[0] = he2.xs[0]
    /\ \E j \in Range(he.n) : he.xs[0][j] # he.precip[0][j] \div 10
    /\ \E j \in Range(he.n) : he.rsim[0][j] # he.inv[1][j]

====
